---- MODULE Spec2Model ----
(***************************************************************************)
(* A model of timehop/gcm's sender: Sender.Send, the retry loop around     *)
(* Sender.SendNoRetry, with updateStatus, calculateSleep, parseRetryAfter,  *)
(* checkSender and checkMessage (src/sender.go), over the Message, Response *)
(* and Result types (src/message.go, src/unnamed/part_001).                 *)
(*                                                                          *)
(* One behaviour of the model is one invocation of Send (Spec, and          *)
(* SpecBackoff for many retries) or of SendNoRetry (SpecCalls has both).    *)
(* The GCM server and the HTTP client are the environment: every transport  *)
(* call draws its outcome from a bounded set of the outcomes the client can *)
(* produce.                                                                 *)
(***************************************************************************)
EXTENDS Integers, Sequences, FiniteSets, TLC

VARIABLES
    sender,      \* the *Sender: APIKey and HTTP
    msg,         \* the caller's *Message (RegistrationIDs is mutated in place)
    retries,     \* Send's retries argument
    pc,          \* position in Send
    resp,        \* Send's local resp
    regIDs,      \* Send's local regIDs (the stored original RegistrationIDs)
    allResults,  \* Send's local allResults map (the retry ledger)
    backoff,     \* Send's local backoff
    i,           \* Send's loop counter
    sleepTime,   \* the duration (ms) of the time.Sleep in progress, 0 when none
    ret,         \* what Send returned: [resp, err]
    orig,        \* history: msg.RegistrationIDs when Send was called
    rounds,      \* history: one record per transport call (HTTP.Do)
    events       \* history: "call" and "sleep" in the order they happened

vars == <<sender, msg, retries, pc, resp, regIDs, allResults, backoff, i,
          sleepTime, ret, orig, rounds, events>>

(***************************** bounds **************************************)
\* longest identifier list of a well-formed message drawn by Init
MaxIDs == 3
\* largest retries argument drawn by Init
MaxRetries == 2
\* largest retries argument drawn by InitBackoff
MaxBackoffRetries == 12

(************************** program constants ******************************)
backoffInitialDelay == 1000
maxBackoffDelay == 1024000
jitterPercentage == 50
\* checkMessage's limits
MaxRegistrationIDs == 1000
MaxTimeToLive == 2419200
\* http.StatusOK
StatusOK == 200

ResponseErrorUnavailable == "Unavailable"
ResponseErrorInvalidRegistration == "InvalidRegistration"

(****************************** data types *********************************)
\* Result (src/unnamed/part_001)
Result(mid, rid, e) == [MessageID |-> mid, RegistrationID |-> rid, Error |-> e]

\* the zero value of Result: what a map lookup of a missing key yields
ZeroResult == Result("", "", "")

\* Response; isNil marks the nil *Response
Response(mid, s, f, c, rs) ==
    [isNil |-> FALSE, MulticastID |-> mid, Success |-> s, Failure |-> f,
     CanonicalIDs |-> c, Results |-> rs]

NilResponse ==
    [isNil |-> TRUE, MulticastID |-> 0, Success |-> 0, Failure |-> 0,
     CanonicalIDs |-> 0, Results |-> <<>>]

\* A value of Go's error interface.  kind names the dynamic value: "nil",
\* the message of an errors.New / fmt.Errorf error, or "HTTPError" for a
\* *HTTPError stored in the interface (whose fields are then code/after).
NoError == [kind |-> "nil", code |-> 0, after |-> 0]
NewError(m) == [kind |-> m, code |-> 0, after |-> 0]

\* HTTPError; isNil marks the nil *HTTPError
HTTPError(sc, e, ra) == [isNil |-> FALSE, StatusCode |-> sc, Err |-> e, RetryAfter |-> ra]

NilHTTPError == [isNil |-> TRUE, StatusCode |-> 0, Err |-> NoError, RetryAfter |-> 0]

\* a *HTTPError assigned to an error interface (Send's &HTTPError{Err: err})
AsError(h) == [kind |-> "HTTPError", code |-> h.StatusCode, after |-> h.RetryAfter]

\* Message; isNil marks the nil *Message, idsNil a nil RegistrationIDs slice
Message(ids, ttl) ==
    [isNil |-> FALSE, idsNil |-> FALSE, RegistrationIDs |-> ids, TimeToLive |-> ttl]

NilMessage == [isNil |-> TRUE, idsNil |-> TRUE, RegistrationIDs |-> <<>>, TimeToLive |-> 0]

(****************************** helpers ************************************)
\* min (src/sender.go)
min(a, b) == IF a <= b THEN a ELSE b

\* max (src/sender.go)
max(a, b) == IF a >= b THEN a ELSE b

\* MapPut with the bug of keeping a key's first value
MapPut_KeepFirst(m, k, v) ==
    [x \in (DOMAIN m) \cup {k} |-> IF x \in DOMAIN m THEN m[x] ELSE v]

\* allResults[k] = v on a Go map
MapPut(m, k, v) == [x \in (DOMAIN m) \cup {k} |-> IF x = k THEN v ELSE m[x]]

\* result, _ := allResults[k]
MapGet(m, k) == IF k \in DOMAIN m THEN m[k] ELSE ZeroResult

\* make(map[string]Result, n)
EmptyMap == [x \in {} |-> ZeroResult]

(*************************** checkSender ***********************************)
\* checkSender with the bug of not looking at the API key
checkSender_AnyKey(s) == ""

\* checkSender's error ("" for nil)
checkSender(s) ==
    IF s.APIKey = "" THEN "the sender's API key must not be empty" ELSE ""

\* checkSender's effect on the sender: a nil HTTP becomes a zeroed client
checkSenderInit(s) ==
    IF s.APIKey # "" /\ s.HTTP = "nil" THEN [s EXCEPT !.HTTP = "client"] ELSE s

(*************************** checkMessage **********************************)
\* checkMessage with the bug of not rejecting an empty RegistrationIDs
checkMessage_EmptyAccepted(m) ==
    IF m.isNil THEN "the message must not be nil"
    ELSE IF m.idsNil THEN "the message's RegistrationIDs field must not be nil"
    ELSE IF Len(m.RegistrationIDs) > MaxRegistrationIDs
        THEN "the message may specify at most 1000 registration IDs"
    ELSE IF m.TimeToLive < 0 \/ MaxTimeToLive < m.TimeToLive
        THEN "the message's TimeToLive field must be an integer between 0 and 2419200 (4 weeks)"
    ELSE ""

\* checkMessage's error ("" for nil)
checkMessage(m) ==
    IF m.isNil THEN "the message must not be nil"
    ELSE IF m.idsNil THEN "the message's RegistrationIDs field must not be nil"
    ELSE IF Len(m.RegistrationIDs) = 0
        THEN "the message must specify at least one registration ID"
    ELSE IF Len(m.RegistrationIDs) > MaxRegistrationIDs
        THEN "the message may specify at most 1000 registration IDs"
    ELSE IF m.TimeToLive < 0 \/ MaxTimeToLive < m.TimeToLive
        THEN "the message's TimeToLive field must be an integer between 0 and 2419200 (4 weeks)"
    ELSE ""

(************************** parseRetryAfter ********************************)
\* A Retry-After header: its text as a sequence of characters; isDate says
\* that time.Parse(time.RFC1123, text) succeeds, and until is then the
\* number of seconds from time.Now() to that date.
Header(t, d, u) == [text |-> t, isDate |-> d, until |-> u]

Digits == <<"0", "1", "2", "3", "4", "5", "6", "7", "8", "9">>

IsDigit(c) == \E d \in 1..10 : Digits[d] = c

DigitValue(c) == (CHOOSE d \in 1..10 : Digits[d] = c) - 1

RECURSIVE DecimalValue(_, _)
DecimalValue(t, acc) ==
    IF t = <<>> THEN acc ELSE DecimalValue(Tail(t), 10 * acc + DigitValue(Head(t)))

\* strconv.Atoi: an optional sign and at least one decimal digit
Atoi(t) ==
    LET signed == t # <<>> /\ Head(t) \in {"+", "-"}
        body == IF signed THEN Tail(t) ELSE t
        ok == body # <<>> /\ \A k \in 1..Len(body) : IsDigit(body[k])
        v == IF ok THEN DecimalValue(body, 0) ELSE 0
    IN  [ok |-> ok, value |-> IF signed /\ Head(t) = "-" THEN 0 - v ELSE v]

\* parseRetryAfter: [delta, err] with err = "" for nil
parseRetryAfter(r) ==
    IF r.text = <<>> THEN [delta |-> 0, err |-> "Empty Retry-After header"]
    ELSE IF Atoi(r.text).ok THEN [delta |-> max(Atoi(r.text).value, 0), err |-> ""]
    ELSE IF r.isDate THEN [delta |-> r.until, err |-> ""]
    ELSE [delta |-> 0, err |-> "Unparseable 'Retry-After' header"]

(*************************** the environment *******************************)
\* registration identifiers
IDs == {"A", "B", "C"}

\* the canonical registration ID the server knows for an identifier ("" for
\* none): the device behind "B" has re-registered
Canonical(id) == IF id = "B" THEN "B2" ELSE ""

\* the per-recipient results the server reports for identifier id: delivered,
\* transiently unavailable, or rejected for good
ServerResults(id) ==
    { Result("m", Canonical(id), ""),
      Result("", "", ResponseErrorUnavailable),
      Result("", "", ResponseErrorInvalidRegistration) }

AllServerResults == UNION {ServerResults(id) : id \in IDs}

\* The result lists a 200 response can carry for a call with identifiers
\* ids: one result per identifier, one result too few, or one too many
\* (of the latter, the lists that are all delivered or all unavailable).
\* For a list longer than MaxIDs only the lists with the same result at
\* every position are drawn.
ResultLists(ids) ==
    LET n == Len(ids)
        full == {r \in [1..n -> AllServerResults] : \A k \in 1..n : r[k] \in ServerResults(ids[k])}
        same(m) == {[k \in 1..m |-> x] :
                      x \in {Result("m", "", ""), Result("", "", ResponseErrorUnavailable)}}
    IN  IF n <= MaxIDs
        THEN full \cup {SubSeq(r, 1, n - 1) : r \in full} \cup same(n + 1)
        ELSE same(n) \cup same(n - 1) \cup same(n + 1)

\* result.MessageID != ""
IsSuccess(r) == r.MessageID # ""

\* a result that carries an error
IsFailure(r) == r.Error # ""

\* result.MessageID != "" && result.RegistrationID != ""
IsCanonical(r) == r.MessageID # "" /\ r.RegistrationID # ""

CountSuccess(rs) == Cardinality({k \in 1..Len(rs) : IsSuccess(rs[k])})
CountFailure(rs) == Cardinality({k \in 1..Len(rs) : IsFailure(rs[k])})
CountCanonical(rs) == Cardinality({k \in 1..Len(rs) : IsCanonical(rs[k])})

\* the body of a 200 response as the server writes it
ServerResponse(mid, rs) ==
    Response(mid, CountSuccess(rs), CountFailure(rs), CountCanonical(rs), rs)

\* the non-200 answers of the server: a status and a Retry-After header
StatusReply(sc, h) == [StatusCode |-> sc, header |-> h]

StatusReplies ==
    { StatusReply(400, Header(<<>>, FALSE, 0)),
      StatusReply(500, Header(<<"1", "2", "0">>, FALSE, 0)),
      StatusReply(503, Header(<<"-", "5">>, FALSE, 0)),
      StatusReply(503, Header(<<"S", "a", "t">>, TRUE, 90)) }

\* History record of one transport call: the identifiers sent, how the call
\* ended, the status and Retry-After header received, and the decoded body
\* (NilResponse when there was none).
Round(sent, kind, sc, h, r) ==
    [sent |-> sent, kind |-> kind, StatusCode |-> sc, header |-> h, resp |-> r]

(*************************** SendNoRetry ***********************************)
\* One way SendNoRetry can end: a panic, or the pair (resp, err) it returns;
\* round is <<>> when HTTP.Do was not invoked, else the call's history record.
Outcome(p, r, e, rnd) == [panic |-> p, resp |-> r, err |-> e, round |-> rnd]

\* s.HTTP.Do returned an error.  With no response (resp == nil), the
\* deferred resp.Body.Close() dereferences nil and panics; with a response
\* (a failed CheckRedirect), the error is returned.
DoFailed(m) ==
    { Outcome(TRUE, NilResponse, NilHTTPError,
              <<Round(m.RegistrationIDs, "do-error", 0, Header(<<>>, FALSE, 0), NilResponse)>>),
      Outcome(FALSE, NilResponse, HTTPError(0, NewError("redirect"), 0),
              <<Round(m.RegistrationIDs, "redirect-error", 0, Header(<<>>, FALSE, 0), NilResponse)>>) }

\* the status is not StatusOK
StatusError(sc, h) ==
    IF parseRetryAfter(h).err # ""
    THEN HTTPError(sc, NewError("status"), 0)
    ELSE HTTPError(sc, NewError("status"), parseRetryAfter(h).delta)

NotOK(m) ==
    { Outcome(FALSE, NilResponse, StatusError(x.StatusCode, x.header),
              <<Round(m.RegistrationIDs, "status", x.StatusCode, x.header, NilResponse)>>)
        : x \in StatusReplies }

\* status 200 with a body that does not decode
BadBody(m) ==
    { Outcome(FALSE, Response(0, 0, 0, 0, <<>>), HTTPError(0, NewError("decode"), 0),
              <<Round(m.RegistrationIDs, "decode-error", StatusOK, Header(<<>>, FALSE, 0), NilResponse)>>) }

\* status 200 with a decoded body
Decoded(m, mid) ==
    { Outcome(FALSE, ServerResponse(mid, rs), NilHTTPError,
              <<Round(m.RegistrationIDs, "ok", StatusOK, Header(<<>>, FALSE, 0),
                    ServerResponse(mid, rs))>>)
        : rs \in ResultLists(m.RegistrationIDs) }

\* SendNoRetry(msg) on sender s; mid is the multicast id the server would assign
SendNoRetry(s, m, mid) ==
    IF checkSender(s) # ""
    THEN {Outcome(FALSE, NilResponse, HTTPError(0, NewError(checkSender(s)), 0), <<>>)}
    ELSE IF checkMessage(m) # ""
    THEN {Outcome(FALSE, NilResponse, HTTPError(0, NewError(checkMessage(m)), 0), <<>>)}
    ELSE DoFailed(m) \cup NotOK(m) \cup BadBody(m) \cup Decoded(m, mid)

(**************************** updateStatus *********************************)
\* updateStatus's loop with the bug of retrying every failed identifier
RECURSIVE updateStatusFrom_AnyError(_, _, _, _, _)
updateStatusFrom_AnyError(ids, rs, all, unsentRegIDs, k) ==
    IF k > Len(rs)
    THEN [panic |-> FALSE, allResults |-> all, unsentRegIDs |-> unsentRegIDs]
    ELSE IF k > Len(ids)
    THEN [panic |-> TRUE, allResults |-> all, unsentRegIDs |-> unsentRegIDs]
    ELSE updateStatusFrom_AnyError(ids, rs, [x \in (DOMAIN all) \cup {ids[k]} |->
                                                IF x = ids[k] THEN rs[k] ELSE all[x]],
                                   IF rs[k].Error # ""
                                   THEN Append(unsentRegIDs, ids[k]) ELSE unsentRegIDs,
                                   k + 1)

\* updateStatus's loop with the bug of not recording the outcomes
RECURSIVE updateStatusFrom_NoRecord(_, _, _, _, _)
updateStatusFrom_NoRecord(ids, rs, all, unsentRegIDs, k) ==
    IF k > Len(rs)
    THEN [panic |-> FALSE, allResults |-> all, unsentRegIDs |-> unsentRegIDs]
    ELSE IF k > Len(ids)
    THEN [panic |-> TRUE, allResults |-> all, unsentRegIDs |-> unsentRegIDs]
    ELSE updateStatusFrom_NoRecord(ids, rs, all,
                                   IF rs[k].Error = ResponseErrorUnavailable
                                   THEN Append(unsentRegIDs, ids[k]) ELSE unsentRegIDs,
                                   k + 1)

\* updateStatus's loop from index k on: ids is msg.RegistrationIDs, rs is
\* resp.Results.  Indexing ids past its end panics (index out of range);
\* the map writes made before the panic stay.
RECURSIVE updateStatusFrom(_, _, _, _, _)
updateStatusFrom(ids, rs, all, unsentRegIDs, k) ==
    IF k > Len(rs)
    THEN [panic |-> FALSE, allResults |-> all, unsentRegIDs |-> unsentRegIDs]
    ELSE IF k > Len(ids)
    THEN [panic |-> TRUE, allResults |-> all, unsentRegIDs |-> unsentRegIDs]
    ELSE updateStatusFrom(ids, rs, MapPut(all, ids[k], rs[k]),
                          IF rs[k].Error = ResponseErrorUnavailable
                          THEN Append(unsentRegIDs, ids[k]) ELSE unsentRegIDs,
                          k + 1)

\* updateStatus(msg, resp, allResults): the new map, the new
\* msg.RegistrationIDs (whose length is the value returned), or a panic
updateStatus(m, r, all) == updateStatusFrom(m.RegistrationIDs, r.Results, all, <<>>, 1)

(**************************** calculateSleep *******************************)
\* values of rand.Intn(n) the model draws, n > 0
RandIntn(n) == {0, n - 1}

\* calculateSleep with the bug of returning the jitter term alone
calculateSleep_JitterOnly(b) ==
    { r : r \in RandIntn((2 * b * jitterPercentage) \div 100) }

\* calculateSleep(backoff): the values it can return
calculateSleep(b) ==
    { (b * (100 - jitterPercentage)) \div 100 + r
        : r \in RandIntn((2 * b * jitterPercentage) \div 100) }

(******************************** Send *************************************)
\* ReturnFirst with the bug of forgetting retries = 0
ReturnFirst_FailureOnly(r, n) == r.Failure = 0

\* "if there were no errors, or retries = 0, return the result"
ReturnFirst(r, n) == r.Failure = 0 \/ n = 0

\* the loop's condition with the bug of one round too many
LoopContinues_OneMore(unsent, k, n) == unsent > 0 /\ k <= n

\* the loop's condition with the bug of looking at the budget only
LoopContinues_BudgetOnly(unsent, k, n) == k < n

\* the for loop's condition, unsent being updateStatus's return value
LoopContinues(unsent, k, n) == unsent > 0 /\ k < n

\* finalResults: one entry per stored original identifier
finalResults(ids, all) == [k \in 1..Len(ids) |-> MapGet(all, ids[k])]

\* FinalResponse with the bug of counting as failures the results that
\* carry an error
FinalResponse_FailureByError(ids, all, last) ==
    LET fr == [k \in 1..Len(ids) |-> MapGet(all, ids[k])]
    IN  Response(last.MulticastID, CountSuccess(fr), CountFailure(fr), CountCanonical(fr), fr)

\* FinalResponse with the bug of reporting the last round's outcomes only
FinalResponse_LastRoundOnly(ids, all, last) ==
    LET fr == [k \in 1..Len(ids) |->
                  IF k <= Len(last.Results) THEN last.Results[k] ELSE ZeroResult]
        success == CountSuccess(fr)
    IN  Response(last.MulticastID, success, Len(ids) - success, CountCanonical(fr), fr)

\* the Response holding the overall results
FinalResponse(ids, all, last) ==
    LET fr == finalResults(ids, all)
        success == CountSuccess(fr)
    IN  Response(last.MulticastID, success, Len(ids) - success, CountCanonical(fr), fr)

\* what Send makes of a non-nil err of SendNoRetry
Wrapped(e) == HTTPError(0, AsError(e), 0)

Returned(r, e) == [resp |-> r, err |-> e]

\* The identifier lists of the well-formed messages drawn: up to MaxIDs
\* identifiers, repeats included, the identifiers first occurring in the
\* order A, B, C (the code only compares identifiers for equality).
RegIDLists ==
    { l \in UNION {[1..n -> IDs] : n \in 1..MaxIDs} :
        /\ l[1] = "A"
        /\ \A k \in 2..Len(l) : l[k] = "C" => \E j \in 1..(k - 1) : l[j] = "B" }

\* the messages a caller passes
Messages ==
    { NilMessage,
      [isNil |-> FALSE, idsNil |-> TRUE, RegistrationIDs |-> <<>>, TimeToLive |-> 0],
      Message(<<>>, 0),
      Message([k \in 1..(MaxRegistrationIDs + 1) |-> "A"], 0),
      Message(<<"A">>, 0 - 1),
      Message(<<"A">>, MaxTimeToLive + 1) }
    \cup {Message(ids, 0) : ids \in RegIDLists}

Init ==
    /\ sender \in {[APIKey |-> k, HTTP |-> "nil"] : k \in {"", "key"}}
    /\ msg \in Messages
    /\ retries \in (0 - 1)..MaxRetries
    /\ pc = "Send"
    /\ resp = NilResponse
    /\ regIDs = <<>>
    /\ allResults = EmptyMap
    /\ backoff = 0
    /\ i = 0
    /\ sleepTime = 0
    /\ ret = Returned(NilResponse, NilHTTPError)
    /\ orig = msg.RegistrationIDs
    /\ rounds = <<>>
    /\ events = <<>>

\* Send, the check of retries
SendStart ==
    /\ pc = "Send"
    /\ IF retries < 0
       THEN /\ ret' = Returned(NilResponse, HTTPError(0, NewError("'retries' must be positive"), 0))
            /\ pc' = "done"
       ELSE /\ pc' = "first"
            /\ UNCHANGED ret
    /\ UNCHANGED <<sender, msg, retries, resp, regIDs, allResults, backoff, i,
                   sleepTime, orig, rounds, events>>

\* Send, from "Send the message for the first time" to the loop's entry
SendFirst ==
    /\ pc = "first"
    /\ \E o \in SendNoRetry(sender, msg, Len(rounds) + 1) :
        /\ sender' = checkSenderInit(sender)
        /\ rounds' = rounds \o o.round
        /\ events' = IF o.round = <<>> THEN events ELSE Append(events, "call")
        /\ IF o.panic
           THEN /\ pc' = "panic"
                /\ UNCHANGED <<resp, regIDs, allResults, backoff, i, ret>>
           ELSE IF ~o.err.isNil
           THEN /\ ret' = Returned(NilResponse, Wrapped(o.err))
                /\ pc' = "done"
                /\ resp' = o.resp
                /\ UNCHANGED <<regIDs, allResults, backoff, i>>
           ELSE IF ReturnFirst(o.resp, retries)
           THEN /\ ret' = Returned(o.resp, o.err)
                /\ pc' = "done"
                /\ resp' = o.resp
                /\ UNCHANGED <<regIDs, allResults, backoff, i>>
           ELSE /\ resp' = o.resp
                /\ regIDs' = msg.RegistrationIDs
                /\ allResults' = EmptyMap
                /\ backoff' = backoffInitialDelay
                /\ i' = 0
                /\ pc' = "loop"
                /\ UNCHANGED ret
    /\ UNCHANGED <<msg, retries, sleepTime, orig>>

\* Send, the for loop's condition, updateStatus(msg, resp, allResults) > 0 &&
\* i < retries, and, when it is false, the rest of Send: restore the message
\* and return the Response holding the overall results
SendLoop ==
    /\ pc = "loop"
    /\ LET u == updateStatus(msg, resp, allResults)
       IN  /\ allResults' = u.allResults
           /\ IF u.panic
              THEN /\ pc' = "panic"
                   /\ UNCHANGED <<msg, ret>>
              ELSE IF LoopContinues(Len(u.unsentRegIDs), i, retries)
              THEN /\ msg' = [msg EXCEPT !.RegistrationIDs = u.unsentRegIDs]
                   /\ pc' = "sleep"
                   /\ UNCHANGED ret
              ELSE /\ msg' = [msg EXCEPT !.RegistrationIDs = regIDs]
                   /\ ret' = Returned(FinalResponse(regIDs, u.allResults, resp), NilHTTPError)
                   /\ pc' = "done"
    /\ UNCHANGED <<sender, retries, resp, regIDs, backoff, i, sleepTime,
                   orig, rounds, events>>

\* Send, the loop body's sleepTime := calculateSleep(backoff) and the call of
\* time.Sleep
SendSleep ==
    /\ pc = "sleep"
    /\ \E t \in calculateSleep(backoff) :
        /\ sleepTime' = t
        /\ events' = Append(events, "sleep")
    /\ pc' = "asleep"
    /\ UNCHANGED <<sender, msg, retries, resp, regIDs, allResults, backoff, i, ret,
                   orig, rounds>>

\* SendWake with the bug of doubling backoff without the cap
SendWake_NoCap ==
    /\ pc = "asleep"
    /\ sleepTime' = 0
    /\ backoff' = 2 * backoff
    /\ pc' = "retry"
    /\ UNCHANGED <<sender, msg, retries, resp, regIDs, allResults, i, ret,
                   orig, rounds, events>>

\* Send, time.Sleep returns: backoff = min(2*backoff, maxBackoffDelay)
SendWake ==
    /\ pc = "asleep"
    /\ sleepTime' = 0
    /\ backoff' = min(2 * backoff, maxBackoffDelay)
    /\ pc' = "retry"
    /\ UNCHANGED <<sender, msg, retries, resp, regIDs, allResults, i, ret,
                   orig, rounds, events>>

\* Send, the loop body's SendNoRetry and i++
SendRetry ==
    /\ pc = "retry"
    /\ \E o \in SendNoRetry(sender, msg, Len(rounds) + 1) :
        /\ sender' = checkSenderInit(sender)
        /\ rounds' = rounds \o o.round
        /\ events' = IF o.round = <<>> THEN events ELSE Append(events, "call")
        /\ IF o.panic
           THEN /\ pc' = "panic"
                /\ UNCHANGED <<msg, resp, i, ret>>
           ELSE IF ~o.err.isNil
           THEN /\ msg' = [msg EXCEPT !.RegistrationIDs = regIDs]
                /\ ret' = Returned(NilResponse, Wrapped(o.err))
                /\ pc' = "done"
                /\ resp' = o.resp
                /\ UNCHANGED i
           ELSE /\ resp' = o.resp
                /\ i' = i + 1
                /\ pc' = "loop"
                /\ UNCHANGED <<msg, ret>>
    /\ UNCHANGED <<retries, regIDs, allResults, backoff, sleepTime, orig>>

Next == SendStart \/ SendFirst \/ SendLoop \/ SendSleep \/ SendWake \/ SendRetry

Spec == Init /\ [][Next]_vars

(************************ Send with many retries ***************************)
\* Send(msg, retries) for one identifier and up to MaxBackoffRetries retries:
\* long enough for backoff to reach maxBackoffDelay
InitBackoff ==
    /\ sender = [APIKey |-> "key", HTTP |-> "nil"]
    /\ msg = Message(<<"A">>, 0)
    /\ retries \in 0..MaxBackoffRetries
    /\ pc = "Send"
    /\ resp = NilResponse
    /\ regIDs = <<>>
    /\ allResults = EmptyMap
    /\ backoff = 0
    /\ i = 0
    /\ sleepTime = 0
    /\ ret = Returned(NilResponse, NilHTTPError)
    /\ orig = msg.RegistrationIDs
    /\ rounds = <<>>
    /\ events = <<>>

SpecBackoff == InitBackoff /\ [][Next]_vars

(************************ SendNoRetry, called directly *********************)
\* the request of 501 identifiers of TestSendNoRetryInvalidMessage
LongMessage == Message([k \in 1..501 |-> "A"], 0)

\* the state when the caller calls SendNoRetry(msg) itself
InitSendNoRetry ==
    /\ sender \in {[APIKey |-> k, HTTP |-> "nil"] : k \in {"", "key"}}
    /\ msg \in Messages \cup {LongMessage}
    /\ retries = 0
    /\ pc = "SendNoRetry"
    /\ resp = NilResponse
    /\ regIDs = <<>>
    /\ allResults = EmptyMap
    /\ backoff = 0
    /\ i = 0
    /\ sleepTime = 0
    /\ ret = Returned(NilResponse, NilHTTPError)
    /\ orig = msg.RegistrationIDs
    /\ rounds = <<>>
    /\ events = <<>>

\* the caller's SendNoRetry(msg): ret is what it returns
SendNoRetryCall ==
    /\ pc = "SendNoRetry"
    /\ \E o \in SendNoRetry(sender, msg, Len(rounds) + 1) :
        /\ sender' = checkSenderInit(sender)
        /\ rounds' = rounds \o o.round
        /\ events' = IF o.round = <<>> THEN events ELSE Append(events, "call")
        /\ IF o.panic
           THEN /\ pc' = "panic"
                /\ UNCHANGED ret
           ELSE /\ ret' = Returned(o.resp, o.err)
                /\ pc' = "done"
    /\ UNCHANGED <<msg, retries, resp, regIDs, allResults, backoff, i, sleepTime, orig>>

\* a caller that calls either Send(msg, retries) or SendNoRetry(msg)
InitCalls == Init \/ InitSendNoRetry

NextCalls == Next \/ SendNoRetryCall

SpecCalls == InitCalls /\ [][NextCalls]_vars

(***************************************************************************)
(*                               Claims                                    *)
(***************************************************************************)
\* Send has ended: it returned, or a panic unwound it
Ended == pc \in {"done", "panic"}

\* number of transport calls (HTTP.Do) and of sleeps so far
Calls == Len(rounds)
Sleeps == Cardinality({k \in 1..Len(events) : events[k] = "sleep"})

\* the k-th transport call failed at the transport level
TransportFailed(k) == rounds[k].kind # "ok"

\* C1: when an invocation of Send that made at least one transport call has
\* ended, on whatever path, msg.RegistrationIDs is the sequence (same
\* elements, same order) the caller passed.
C1_RegistrationIDsRestored ==
    (Ended /\ Calls >= 1) => msg.RegistrationIDs = orig

\* The part of C1 that the code keeps: whenever Send returns (with a response
\* or with an error), msg.RegistrationIDs is the sequence the caller passed.
C1_RestoredOnReturn ==
    (pc = "done" /\ Calls >= 1) => msg.RegistrationIDs = orig

\* the identifiers in ids are pairwise distinct
Distinct(ids) == \A a, b \in 1..Len(ids) : ids[a] = ids[b] => a = b

\* id occurs in ids
Occurs(id, ids) == \E k \in 1..Len(ids) : ids[k] = id

\* the positions of round k that got an outcome
Answered(k) == 1..min(Len(rounds[k].sent), Len(rounds[k].resp.Results))

\* the identifiers of round k whose outcome in that round was "Unavailable",
\* in the order they were sent, computed from the history
RECURSIVE UnavailableFrom(_, _)
UnavailableFrom(k, j) ==
    IF j \notin Answered(k) THEN <<>>
    ELSE (IF rounds[k].resp.Results[j].Error = "Unavailable"
          THEN <<rounds[k].sent[j]>> ELSE <<>>) \o UnavailableFrom(k, j + 1)

\* position j holds the latest outcome round k reported for its identifier
IsLatest(k, j) ==
    \A j2 \in Answered(k) : rounds[k].sent[j2] = rounds[k].sent[j] => j2 <= j

\* the last outcome round k reported for identifier id
LatestOutcome(k, id) ==
    LET last == CHOOSE j \in Answered(k) : rounds[k].sent[j] = id /\ IsLatest(k, j)
    IN  rounds[k].resp.Results[last]

\* every retry round sends, in order, exactly the identifiers whose outcome
\* in the round before was "Unavailable"
RetryListIsUnavailable ==
    \A k \in 2..Calls : rounds[k].sent = UnavailableFrom(k - 1, 1)

\* an identifier whose latest outcome is a success or another error is in no
\* later round
SettledNeverResent ==
    \A k \in 1..(Calls - 1) : \A j \in Answered(k) :
        (rounds[k].resp.Results[j].Error # "Unavailable" /\ IsLatest(k, j))
            => \A k2 \in (k + 1)..Calls : ~Occurs(rounds[k].sent[j], rounds[k2].sent)

\* C2 as stated: every retry round's identifier list is, in order, exactly
\* the identifiers of the previous round whose outcome had Error
\* "Unavailable"; consequently an identifier whose latest outcome is a
\* success or any other error is never sent again in a later round.
C2_RetryOnlyUnavailable == RetryListIsUnavailable /\ SettledNeverResent

\* C2 amended: every retry round's identifier list is, in order, exactly the
\* identifiers of the previous round whose outcome had Error "Unavailable";
\* consequently, when the identifiers of the call are pairwise distinct, an
\* identifier whose latest outcome is a success or any other error is never
\* sent again in a later round.
C2_RetryOnlyUnavailableDistinct ==
    RetryListIsUnavailable /\ (Distinct(orig) => SettledNeverResent)

\* C2's case: three distinct identifiers, two retry rounds, each retrying a
\* proper part of the round before
C2_Witness ==
    /\ Calls = 3
    /\ Distinct(orig)
    /\ Len(rounds[1].sent) = 3
    /\ Len(rounds[2].sent) = 2
    /\ Len(rounds[3].sent) = 1
    /\ \E j \in Answered(1) : rounds[1].resp.Results[j].Error = "InvalidRegistration"
    /\ \E j \in Answered(2) : rounds[2].resp.Results[j].MessageID # ""

\* Send took the retry path: the first response came, reported failures, and
\* retries > 0
RetryPath ==
    /\ Calls >= 1
    /\ rounds[1].kind = "ok"
    /\ rounds[1].resp.Failure > 0
    /\ retries > 0

\* Send returned the overall Response built after the loop
ReturnedOverall == pc = "done" /\ ret.err.isNil /\ RetryPath

\* every response carried one outcome per identifier sent
OneOutcomeEach ==
    \A k \in 1..Calls :
        rounds[k].kind = "ok" /\ Len(rounds[k].resp.Results) = Len(rounds[k].sent)

\* the last round in which identifier id was sent
LastRound(id) ==
    CHOOSE k \in 1..Calls :
        /\ Occurs(id, rounds[k].sent)
        /\ \A k2 \in (k + 1)..Calls : ~Occurs(id, rounds[k2].sent)

\* every outcome of round k is "Unavailable"
AllUnavailable(k) ==
    \A j \in 1..Len(rounds[k].resp.Results) : rounds[k].resp.Results[j].Error = "Unavailable"

\* every outcome of round k is a success
AllDelivered(k) ==
    \A j \in 1..Len(rounds[k].resp.Results) : rounds[k].resp.Results[j].MessageID # ""

\* C3: when Send goes through the retry path, the identifiers are distinct
\* and every response carries one outcome per identifier sent, the returned
\* Results has the length of the original list and Results[p] is the outcome
\* reported for original identifier p in the last round that sent it; an
\* all-Unavailable first round followed, with retries = 1, by an all-success
\* second round yields Success = original count and Failure = 0.
C3_ResultsAlignedToOriginal ==
    (ReturnedOverall /\ Distinct(orig) /\ OneOutcomeEach) =>
        /\ Len(ret.resp.Results) = Len(orig)
        /\ \A p \in 1..Len(orig) :
              ret.resp.Results[p] = LatestOutcome(LastRound(orig[p]), orig[p])
        /\ (retries = 1 /\ Calls = 2 /\ AllUnavailable(1) /\ AllDelivered(2))
              => (ret.resp.Success = Len(orig) /\ ret.resp.Failure = 0)

\* C3's case: [A, B, C], B and C unavailable in round 1, retried as [B, C]
\* and delivered in round 2
C3_Witness ==
    /\ ReturnedOverall /\ OneOutcomeEach
    /\ orig = <<"A", "B", "C">>
    /\ Calls = 2
    /\ rounds[1].resp.Results[1].MessageID # ""
    /\ rounds[2].sent = <<"B", "C">>
    /\ AllDelivered(2)
    /\ ret.resp.Success = 3 /\ ret.resp.Failure = 0

\* the request is one Send must reject: nil, a nil or empty identifier list,
\* more than 1000 identifiers, or retries negative
Invalid ==
    \/ msg.isNil
    \/ msg.idsNil
    \/ Len(orig) = 0
    \/ Len(orig) > 1000
    \/ retries < 0

\* C4: for a nil request, a nil or empty identifier list, more than 1000
\* identifiers or negative retries, Send never invokes the transport and
\* never sleeps, and what it returns is a non-nil error (and no response).
C4_InvalidNeverSent ==
    Invalid =>
        /\ Calls = 0 /\ Sleeps = 0 /\ events = <<>>
        /\ pc \in {"Send", "first", "done"}
        /\ pc = "done" => (~ret.err.isNil /\ ret.err.Err # NoError /\ ret.resp.isNil)

\* C4's case: a request of 1001 identifiers was rejected
C4_Witness ==
    /\ pc = "done"
    /\ Len(orig) = 1001 /\ retries >= 0 /\ sender.APIKey # ""
    /\ ~ret.err.isNil
    /\ Calls = 0

\* C5: if the first transport response reports zero failures, or retries is 0
\* (even when that response has failures), Send returns exactly that response
\* with a nil error, after exactly one transport call and no sleep.
C5_FirstResponseReturned ==
    (Calls >= 1 /\ rounds[1].kind = "ok" /\ (rounds[1].resp.Failure = 0 \/ retries = 0)) =>
        /\ pc = "done"
        /\ ret.resp = rounds[1].resp
        /\ ret.err.isNil
        /\ Calls = 1 /\ events = <<"call">>

\* C5's case: retries = 0 and a first response with failures
C5_Witness ==
    /\ pc = "done" /\ retries = 0
    /\ Calls = 1 /\ rounds[1].kind = "ok"
    /\ rounds[1].resp.Failure > 0
    /\ ret.resp = rounds[1].resp

\* C6: if the first transport call fails at the transport level (a non-200
\* status, or the call itself failing), Send returns a non-nil error and a
\* nil response, having made exactly one transport call and no sleep,
\* whatever retries is.
C6_FirstCallFailureReturned ==
    (Calls >= 1 /\ TransportFailed(1)) =>
        /\ pc = "done"
        /\ ~ret.err.isNil /\ ret.err.Err # NoError
        /\ ret.resp.isNil
        /\ Calls = 1 /\ events = <<"call">>

\* The part of C6 that the code keeps: a first call that ends with a non-200
\* status, an undecodable body, or an error beside a response makes Send
\* return an error and no response after that one call.
C6_FirstCallFailureNoPanic ==
    (Calls >= 1 /\ TransportFailed(1) /\ rounds[1].kind # "do-error") =>
        /\ pc = "done"
        /\ ~ret.err.isNil /\ ret.err.Err # NoError
        /\ ret.resp.isNil
        /\ Calls = 1 /\ events = <<"call">>

\* C7: if the transport call of a retry round fails at the transport level,
\* Send returns a non-nil error at once, with a nil response: the failing
\* call is the last event, even with retry budget left.
C7_RetryCallFailureReturned ==
    (Calls >= 2 /\ TransportFailed(Calls)) =>
        /\ pc = "done"
        /\ ~ret.err.isNil /\ ret.err.Err # NoError
        /\ ret.resp.isNil
        /\ events[Len(events)] = "call"

\* The part of C7 that the code keeps: no sleep and no transport call follows
\* a failed retry call, and Send returns no response after one.
C7_RetryCallFailureEnds ==
    (Calls >= 2 /\ TransportFailed(Calls)) =>
        /\ Ended
        /\ events[Len(events)] = "call"
        /\ pc = "done" => (~ret.err.isNil /\ ret.resp.isNil)

\* Send never makes a transport call after a failed one
NoCallAfterFailure == \A k \in 1..(Calls - 1) : ~TransportFailed(k)

\* the termination measure of Send: the steps it can still take
Remaining ==
    CASE pc = "Send" -> 4 * (retries + 1) + 3
      [] pc = "SendNoRetry" -> 1
      [] pc = "first" -> 4 * (retries + 1) + 2
      [] pc = "loop" -> 4 * (retries - i) + 1
      [] pc = "sleep" -> 4 * (retries - i)
      [] pc = "asleep" -> 4 * (retries - i) - 1
      [] pc = "retry" -> 4 * (retries - i) - 2
      [] OTHER -> 0

\* C8: for retries = N >= 0, Send makes at most N retry transport calls, at
\* most 1 + N transport calls in all, and terminates: every step it takes
\* lowers a measure that is never negative and is 0 only at its end.
C8_AtMostNRetries ==
    /\ [](retries >= 0 => (Calls <= 1 + retries /\ Sleeps <= retries /\ i <= retries))
    /\ [](Remaining >= 0 /\ (Remaining = 0 <=> Ended))
    /\ [][Remaining' < Remaining]_vars

\* C8's case: retries = 2 and both retries were used
C8_Witness ==
    /\ Ended /\ retries = 2
    /\ Calls = 3 /\ Sleeps = 2
    /\ \A k \in 1..Calls : rounds[k].kind = "ok"

\* the HTTPError SendNoRetry returned for transport call k, from the history
SendNoRetryError(k) == StatusError(rounds[k].StatusCode, rounds[k].header)

\* C9: when a transport call made by Send fails with a non-200 status, the
\* error Send returns carries that status in StatusCode and the parsed
\* Retry-After value in RetryAfter, as SendNoRetry returned them.
C9_StatusCodePropagated ==
    (pc = "done" /\ Calls >= 1 /\ rounds[Calls].kind = "status") =>
        /\ ~ret.err.isNil
        /\ ret.err.StatusCode = rounds[Calls].StatusCode
        /\ ret.err.RetryAfter = SendNoRetryError(Calls).RetryAfter

\* What the code does instead: the error Send returns wraps SendNoRetry's, so
\* the status and the Retry-After value sit one level down, in Err, and its
\* own StatusCode and RetryAfter are 0.
C9_StatusCodeWrapped ==
    (pc = "done" /\ Calls >= 1 /\ rounds[Calls].kind = "status") =>
        /\ ~ret.err.isNil
        /\ ret.err.StatusCode = 0 /\ ret.err.RetryAfter = 0
        /\ ret.err.Err.kind = "HTTPError"
        /\ ret.err.Err.code = rounds[Calls].StatusCode
        /\ ret.err.Err.after = SendNoRetryError(Calls).RetryAfter

\* some round recorded an outcome for identifier id
Recorded(id) == \E k \in 1..Calls : \E j \in Answered(k) : rounds[k].sent[j] = id

\* C10: on the retry path, every original identifier for which no outcome was
\* ever recorded appears in the final Results, at its original position, as
\* a failure with a non-empty Error.
C10_UnrecordedIsUnknownError ==
    ReturnedOverall =>
        \A p \in 1..Len(orig) :
            ~Recorded(orig[p]) =>
                /\ p <= Len(ret.resp.Results)
                /\ ret.resp.Results[p].MessageID = ""
                /\ ret.resp.Results[p].Error # ""

\* What the code does instead: such an identifier gets the zero Result, with
\* no MessageID and an empty Error, and is counted in Failure.
C10_UnrecordedIsZeroResult ==
    ReturnedOverall =>
        /\ Len(ret.resp.Results) = Len(orig)
        /\ \A p \in 1..Len(orig) : ~Recorded(orig[p]) => ret.resp.Results[p] = ZeroResult
        /\ ret.resp.Failure >= Cardinality({p \in 1..Len(orig) : ~Recorded(orig[p])})

\* every transport call made so far got a 200 response that decoded
AllCallsOK == \A k \in 1..Calls : rounds[k].kind = "ok"

\* no response carried more outcomes than identifiers were sent
NoExtraOutcomes ==
    \A k \in 1..Calls : Len(rounds[k].resp.Results) <= Len(rounds[k].sent)

\* the positions of round 1 that reported a terminal failure: an error other
\* than "Unavailable"
TerminalInFirst ==
    {p \in Answered(1) : rounds[1].resp.Results[p].Error \notin {"", "Unavailable"}}

\* when Send has ended after calls that all succeeded, it has returned a
\* response and a nil error, and every terminal failure of round 1 is in the
\* returned Results at its original position, as reported, and counted in
\* Failure
TerminalFailuresKept ==
    (Ended /\ Calls >= 1 /\ AllCallsOK) =>
        /\ pc = "done"
        /\ ret.err.isNil /\ ~ret.resp.isNil
        /\ \A p \in TerminalInFirst :
              /\ p <= Len(ret.resp.Results)
              /\ ret.resp.Results[p] = rounds[1].resp.Results[p]
        /\ ret.resp.Failure >= Cardinality(TerminalInFirst)

C12_EmptyAPIKeyFailsFirst ==
    (sender.APIKey = "" /\ retries >= 0) =>
        /\ Calls = 0 /\ Sleeps = 0 /\ events = <<>>
        /\ pc \in {"Send", "first", "SendNoRetry", "done"}
        /\ pc = "done" => (~ret.err.isNil /\ ret.err.Err # NoError /\ ret.resp.isNil)

\* C12's case: Send returned an error for a well-formed request of three
\* identifiers and retries > 0, the APIKey being empty
C12_Witness ==
    /\ pc = "done"
    /\ sender.APIKey = "" /\ retries > 0
    /\ orig = <<"A", "B", "C">>
    /\ ~ret.err.isNil /\ ret.resp.isNil
    /\ Calls = 0

\* C13: for a request whose identifier list has more than 500 entries,
\* SendNoRetry does not invoke the transport and returns a non-nil error.
C13_Over500Rejected ==
    Len(orig) > 500 =>
        /\ Calls = 0
        /\ pc = "done" => ~ret.err.isNil

\* What the code does instead: the limit of SendNoRetry is that of Send,
\* 1000 identifiers.
C13_Over1000Rejected ==
    Len(orig) > MaxRegistrationIDs =>
        /\ Calls = 0
        /\ pc = "done" => ~ret.err.isNil

\* C14: on every path on which Send returns, the *HTTPError it returns is
\* non-nil, and its Err field is nil exactly when Send returns a response.
C14_ErrorAlwaysInspectable ==
    pc = "done" =>
        /\ ~ret.err.isNil
        /\ ret.err.Err = NoError <=> ~ret.resp.isNil

\* What the code does instead: the *HTTPError is nil exactly when Send
\* returns a response, and a non-nil one always has a non-nil Err.
C14_NilErrorOnSuccess ==
    pc = "done" =>
        /\ ret.err.isNil <=> ~ret.resp.isNil
        /\ ~ret.err.isNil => ret.err.Err # NoError

\* C15: when the HTTP call itself fails (the client returns an error and no
\* response), SendNoRetry does not crash: it returns a nil response and a
\* non-nil error.
C15_DoErrorReturned ==
    (Calls >= 1 /\ rounds[Calls].kind = "do-error") =>
        /\ pc = "done"
        /\ ret.resp.isNil /\ ~ret.err.isNil

\* What the code does instead: the deferred resp.Body.Close() is evaluated
\* on the nil response before err is looked at, and SendNoRetry panics.
C15_DoErrorPanics ==
    (Calls >= 1 /\ rounds[Calls].kind = "do-error") => pc = "panic"

\* Send is in the time.Sleep of a retry
Sleeping == pc = "asleep"

\* C16 as stated: the sleep of a retry with current backoff b lies between
\* b*(100-50)/100 and b (a jitter of at most b*50/100 added to the former);
\* the sleep before the first retry is below 1000 ms.
C16_SleepWithinBackoff ==
    Sleeping =>
        /\ (backoff * (100 - 50)) \div 100 <= sleepTime
        /\ sleepTime <= (backoff * (100 - 50)) \div 100 + (backoff * 50) \div 100
        /\ sleepTime <= backoff
        /\ Sleeps = 1 => sleepTime < 1000

\* C16 amended: the sleep of a retry with current backoff b is
\* floor(b*(100-50)/100) plus a jitter term drawn from 0 .. 2*b*50/100 - 1,
\* so it lies between b/2 and 3b/2 (exclusive); the sleep before the first
\* retry (b = 1000) is at least 500 and below 1500 ms.
C16_SleepWithinTwiceJitter ==
    Sleeping =>
        /\ (backoff * (100 - 50)) \div 100 <= sleepTime
        /\ sleepTime < (backoff * (100 - 50)) \div 100 + (2 * backoff * 50) \div 100
        /\ 2 * sleepTime >= backoff /\ 2 * sleepTime < 3 * backoff
        /\ Sleeps = 1 => (backoff = 1000 /\ 500 <= sleepTime /\ sleepTime < 1500)

\* C16's case: a first retry that sleeps longer than its backoff of 1000
C16_Witness ==
    /\ Sleeping /\ Sleeps = 1
    /\ backoff = 1000
    /\ sleepTime = 1499

\* C17: the delay Send sleeps before a retry never exceeds maxBackoffDelay.
C17_SleepAtMostMaxBackoff == sleepTime <= 1024000

\* What the code does instead: backoff, not the sleep, is capped; the sleep
\* stays below one and a half times maxBackoffDelay.
C17_SleepBelowJitteredMax == 2 * sleepTime < 3 * maxBackoffDelay

\* C18: the backoff used for the sleep of the k-th retry is
\* min(1000 * 2^(k-1), 1024000); backoff starts at 1000, never decreases and
\* never exceeds 1,024,000.
C18_BackoffDoublesToCap ==
    /\ [](Sleeping => backoff = min(1000 * 2^(Sleeps - 1), 1024000))
    /\ [](pc = "sleep" => backoff = min(1000 * 2^Sleeps, 1024000))
    /\ [](backoff <= 1024000)
    /\ [][backoff' >= backoff]_vars

\* C18's case: the 12th retry, whose doubled backoff the cap cuts down
C18_Witness ==
    /\ Sleeping /\ Sleeps = 12
    /\ 1000 * 2^(Sleeps - 1) > 1024000
    /\ backoff = 1024000

\* the events so far are a prefix of call, sleep, call, sleep, ...
Alternating ==
    \A k \in 1..Len(events) : events[k] = (IF k % 2 = 1 THEN "call" ELSE "sleep")

\* the ledger holds the outcomes of round k: for every identifier the round
\* answered, the last outcome the round reported for it
Merged(k) ==
    /\ rounds[k].kind = "ok"
    /\ \A j \in Answered(k) :
          IsLatest(k, j) =>
              /\ rounds[k].sent[j] \in DOMAIN allResults
              /\ allResults[rounds[k].sent[j]] = rounds[k].resp.Results[j]

\* C19: within one Send, transport calls and sleeps alternate as call,
\* (sleep, call)*: no sleep before the first call, exactly one sleep between
\* two consecutive calls, no sleep after the last call; and a round's call is
\* issued only after the response of the round before was received and
\* merged into the ledger.
C19_CallsAndSleepsAlternate ==
    /\ [](Alternating /\ Sleeps <= Calls)
    /\ [](Ended => (Sleeps = 0 /\ Calls <= 1) \/ (Calls = Sleeps + 1 /\ events[Len(events)] = "call"))
    /\ [](pc \in {"sleep", "asleep", "retry"} => Merged(Calls))
    /\ [][(Len(rounds') > Len(rounds) /\ Calls >= 1) => (pc = "retry" /\ Merged(Calls))]_vars

\* C19's case: Send ended after call, sleep, call, sleep, call
C19_Witness ==
    /\ Ended
    /\ events = <<"call", "sleep", "call", "sleep", "call">>
    /\ Calls = 3

\* some identifier of the ledger has Error "Unavailable"
LedgerHasUnavailable ==
    \E id \in DOMAIN allResults : allResults[id].Error = "Unavailable"

\* Send is in the loop's body: it will sleep, sleeps, or will call again
InLoopBody == pc \in {"sleep", "asleep", "retry"}

\* once the merged outcomes leave no identifier "Unavailable", the loop is
\* left: Send is not in the loop's body
ExitsWhenNoneUnavailable == InLoopBody => LedgerHasUnavailable

\* when Send returns the overall response after the last of its retries
\* rounds, every outcome of that round is in the returned Results, at the
\* original positions of its identifier
LastRoundMerged ==
    (ReturnedOverall /\ Calls = retries + 1) =>
        \A j \in Answered(Calls) :
            IsLatest(Calls, j) =>
                \A p \in 1..Len(orig) :
                    orig[p] = rounds[Calls].sent[j]
                        => ret.resp.Results[p] = rounds[Calls].resp.Results[j]

\* C20 as stated: on the retry path, as soon as a round's merged outcomes
\* leave no identifier with Error "Unavailable", the loop exits without a
\* further sleep or transport call, even with retry budget left; and when
\* the budget is exhausted, the outcomes of the last retry round are merged
\* before the final response is built.
C20_ExitWhenNoneUnavailable == ExitsWhenNoneUnavailable /\ LastRoundMerged

\* the loop is left when the round reported no "Unavailable" outcome at all
ExitsWhenNoUnavailableOutcome == InLoopBody => UnavailableFrom(Calls, 1) # <<>>

\* C20 amended: the same, the first part for calls whose identifiers are
\* pairwise distinct (for any call, the loop exits as soon as a round
\* reports no "Unavailable" outcome).
C20_ExitWhenNoneUnavailableDistinct ==
    /\ Distinct(orig) => ExitsWhenNoneUnavailable
    /\ ExitsWhenNoUnavailableOutcome
    /\ LastRoundMerged

\* C20's case: with two retries allowed, the first retry round delivers the
\* identifiers that were unavailable, and Send returns after it
C20_Witness ==
    /\ ReturnedOverall /\ Distinct(orig)
    /\ retries = 2 /\ Calls = 2 /\ Sleeps = 1
    /\ Len(rounds[2].sent) = 2
    /\ AllDelivered(2) /\ OneOutcomeEach
    /\ ~LedgerHasUnavailable

\* C21: in the response Send builds on the retry path, Results has one
\* position per original identifier, holding what the ledger has for it;
\* Success is the number of positions with a non-empty MessageID, Failure the
\* number of the other positions, so Success + Failure is the number of
\* original identifiers; and CanonicalIDs <= Success.
C21_CountsCoverAllIdentifiers ==
    ReturnedOverall =>
        /\ Len(ret.resp.Results) = Len(orig)
        /\ \A p \in 1..Len(orig) : ret.resp.Results[p] = MapGet(allResults, orig[p])
        /\ ret.resp.Success + ret.resp.Failure = Len(orig)
        /\ ret.resp.Success =
              Cardinality({p \in 1..Len(orig) : ret.resp.Results[p].MessageID # ""})
        /\ ret.resp.Failure =
              Cardinality({p \in 1..Len(orig) : ret.resp.Results[p].MessageID = ""})
        /\ ret.resp.CanonicalIDs <= ret.resp.Success
        /\ ret.resp.CanonicalIDs >= 0

\* C21's case: [A, B, C]; round 1 delivers A and finds B and C unavailable,
\* round 2 delivers B under its canonical id and answers nothing for C
C21_Witness ==
    /\ ReturnedOverall
    /\ orig = <<"A", "B", "C">>
    /\ Calls = 2
    /\ rounds[2].sent = <<"B", "C">>
    /\ Len(rounds[2].resp.Results) = 1
    /\ ret.resp.Results[2].RegistrationID = "B2"
    /\ ret.resp.Success = 2 /\ ret.resp.Failure = 1 /\ ret.resp.CanonicalIDs = 1

====
